---- MODULE Spec2Model ----
(***************************************************************************)
(* Model of the chemicalanalyzer backend: the CSV analysis of              *)
(* equipment/services.py, the Dataset retention of equipment/models.py and *)
(* the upload request of equipment/views.py.                               *)
(*                                                                         *)
(* Python strings are sequences of one-character strings, so that strip,   *)
(* lower, replace, re.sub and endswith are computed, not assumed.          *)
(* Floats are integers counted in hundredths (100.0 is 10000); an          *)
(* optional float is <<>> (NaN / None) or <<v>>.                           *)
(***************************************************************************)
EXTENDS Integers, Sequences, FiniteSets, TLC

(***************************************************************************)
(* Bounds of the model.                                                    *)
(***************************************************************************)
\* longest CSV body, in data rows, that the analysis is run on
MaxRows == 3

\* Datasets created in a run of sequential uploads
MaxSeqUploads == 6

\* Datasets created in a run of overlapping uploads
MaxUploads == 2

(***************************************************************************)
(* Python str operations.                                                  *)
(***************************************************************************)
UpperChars == <<"A","B","C","D","E","F","G","H","I","J","K","L","M",
                "N","O","P","Q","R","S","T","U","V","W","X","Y","Z">>

LowerChars == <<"a","b","c","d","e","f","g","h","i","j","k","l","m",
                "n","o","p","q","r","s","t","u","v","w","x","y","z">>

DigitChars == <<"0","1","2","3","4","5","6","7","8","9">>

Range(s) == {s[i] : i \in DOMAIN s}

UpperSet == Range(UpperChars)

DigitSet == Range(DigitChars)

LowerOf ==
  [c \in UpperSet |-> LowerChars[CHOOSE i \in DOMAIN UpperChars : UpperChars[i] = c]]

\* str.lower() on one character
LowerChar(c) == IF c \in UpperSet THEN LowerOf[c] ELSE c

\* str.lower()
Lower(s) == [i \in DOMAIN s |-> LowerChar(s[i])]

Whitespace == {" ", "\t"}

IsSpace(c) == c \in Whitespace

\* str.strip(): drop leading and trailing whitespace
Strip(s) ==
  LET keep == {i \in DOMAIN s : ~IsSpace(s[i])}
  IN IF keep = {} THEN <<>>
     ELSE LET lo == CHOOSE i \in keep : \A j \in keep : i <= j
              hi == CHOOSE i \in keep : \A j \in keep : j <= i
          IN SubSeq(s, lo, hi)

\* str.replace(old, new) for one-character old and new
Replace(s, old, new) == [i \in DOMAIN s |-> IF s[i] = old THEN new ELSE s[i]]

\* the character class [a-z0-9_]
WordChars == Range(LowerChars) \cup DigitSet \cup {"_"}

IsWordChar(c) == c \in WordChars

\* re.sub(r'[^a-z0-9_]', '', s)
ReSubNonWord(s) == SelectSeq(s, IsWordChar)

\* str.endswith(suffix)
EndsWith(s, suffix) ==
  /\ Len(s) >= Len(suffix)
  /\ SubSeq(s, Len(s) - Len(suffix) + 1, Len(s)) = suffix

\* join that keeps the first part only
Join_first(parts, sep) == IF Len(parts) = 0 THEN <<>> ELSE <<parts[1]>>

\* sep.join(parts), on a list of message pieces
RECURSIVE Join(_, _)
Join(parts, sep) ==
  IF Len(parts) = 0 THEN <<>>
  ELSE IF Len(parts) = 1 THEN <<parts[1]>>
  ELSE <<parts[1], sep>> \o Join(Tail(parts), sep)

(***************************************************************************)
(* The canonical column names and the alias tables of                      *)
(* normalize_column_name.                                                  *)
(***************************************************************************)
equipment_name == <<"e","q","u","i","p","m","e","n","t","_","n","a","m","e">>
type == <<"t","y","p","e">>
flowrate == <<"f","l","o","w","r","a","t","e">>
pressure == <<"p","r","e","s","s","u","r","e">>
temperature == <<"t","e","m","p","e","r","a","t","u","r","e">>

exact_mapping ==
     (<<"e","q","u","i","p","m","e","n","t"," ","n","a","m","e">> :> equipment_name)
  @@ (<<"e","q","u","i","p","m","e","n","t","n","a","m","e">> :> equipment_name)
  @@ (type :> type)
  @@ (flowrate :> flowrate)
  @@ (pressure :> pressure)
  @@ (temperature :> temperature)

column_mapping ==
     (<<"n","a","m","e">> :> equipment_name)
  @@ (<<"e","q","u","i","p","m","e","n","t">> :> equipment_name)
  @@ (<<"e","q","u","i","p","m","e","n","t","_","t","y","p","e">> :> type)
  @@ (<<"f","l","o","w","_","r","a","t","e">> :> flowrate)
  @@ (<<"f","l","o","w">> :> flowrate)
  @@ (<<"t","e","m","p">> :> temperature)

\* a lookup that does not fold the letter case
normalize_column_name_cased(column_name) ==
  LET original == Strip(column_name)
  IN IF original \in DOMAIN exact_mapping
     THEN exact_mapping[original]
     ELSE LET normalized == ReSubNonWord(Replace(original, " ", "_"))
          IN IF normalized \in DOMAIN column_mapping
             THEN column_mapping[normalized]
             ELSE normalized

normalize_column_name(column_name) ==
  LET original == Strip(column_name)
      lower_original == Lower(original)
  IN IF lower_original \in DOMAIN exact_mapping
     THEN exact_mapping[lower_original]
     ELSE LET normalized == ReSubNonWord(Replace(lower_original, " ", "_"))
          IN IF normalized \in DOMAIN column_mapping
             THEN column_mapping[normalized]
             ELSE normalized

required_columns == <<equipment_name, type, flowrate, pressure, temperature>>

numeric_columns == <<flowrate, pressure, temperature>>

readable_names ==
     (equipment_name :> "Equipment Name")
  @@ (type :> "Type")
  @@ (flowrate :> "Flowrate")
  @@ (pressure :> "Pressure")
  @@ (temperature :> "Temperature")

(***************************************************************************)
(* pandas: an uploaded CSV is its header line and its data rows, every     *)
(* row holding one cell (a string) per header.  read_csv reads an empty    *)
(* cell, or one of its default NA spellings, as NaN.                       *)
(***************************************************************************)
NAStrings == {<<>>, <<"N","A">>}

\* pd.isna on a cell as read by read_csv
IsNA(cell) == cell \in NAStrings

NaN == <<>>

IsDigits(s) == Len(s) > 0 /\ \A i \in DOMAIN s : s[i] \in DigitSet

DigitValue(c) == (CHOOSE i \in DOMAIN DigitChars : DigitChars[i] = c) - 1

RECURSIVE IntValue(_)
IntValue(s) ==
  IF Len(s) = 0 THEN 0
  ELSE 10 * IntValue(SubSeq(s, 1, Len(s) - 1)) + DigitValue(s[Len(s)])

\* pd.to_numeric(errors='coerce') on one cell: the value in hundredths, or NaN.
\* The cells of the model that are numbers are unsigned integer literals.
to_numeric(cell) ==
  IF IsNA(cell) THEN NaN
  ELSE IF IsDigits(cell) THEN <<100 * IntValue(cell)>>
  ELSE NaN

\* the position of a column of a DataFrame whose column names are distinct
ColIdx(columns, col) == CHOOSE i \in DOMAIN columns : columns[i] = col

\* dropna with how='any': a row goes when one of the subset is missing
dropna_any(columns, rows, subset) ==
  LET Complete(r) == \A k \in DOMAIN subset : ~IsNA(r[ColIdx(columns, subset[k])])
  IN SelectSeq(rows, Complete)

\* df.dropna(subset=subset, how='all')
dropna_all(columns, rows, subset) ==
  LET HasData(r) == \E k \in DOMAIN subset : ~IsNA(r[ColIdx(columns, subset[k])])
  IN SelectSeq(rows, HasData)

RECURSIVE SeqSum(_)
SeqSum(s) == IF Len(s) = 0 THEN 0 ELSE Head(s)[1] + SeqSum(Tail(s))

NotNaN(x) == x # NaN

\* mean with NaN counted as 0 (the mean of fillna(0))
mean_of_all(values) ==
  LET present == SelectSeq(values, NotNaN)
  IN IF Len(present) = 0 THEN NaN ELSE <<SeqSum(present), Len(values)>>

\* Series.mean() of a numeric column, NaN skipped: NaN, or the exact quotient
\* <<sum, count>> of the values that are not NaN
mean(values) ==
  LET present == SelectSeq(values, NotNaN)
  IN IF Len(present) = 0 THEN NaN ELSE <<SeqSum(present), Len(present)>>

\* round(num / den) to the nearest integer, ties to even, for num >= 0
RoundHalfEven(num, den) ==
  LET q == num \div den
      r == num % den
  IN IF 2 * r < den THEN q
     ELSE IF 2 * r > den THEN q + 1
     ELSE IF q % 2 = 0 THEN q ELSE q + 1

\* safe_round: round(val, 2) if pd.notnull(val) else None
safe_round(val) ==
  IF val # NaN THEN <<RoundHalfEven(val[1], val[2])>> ELSE NaN

Unknown == <<"U","n","k","n","o","w","n">>

\* df['type'].fillna('Unknown').astype(str).str.strip(), on one cell
clean_type(cell) == Strip(IF IsNA(cell) THEN Unknown ELSE cell)

\* value_counts taken before fillna: the rows without a type are not counted
value_counts_before_fillna(values) ==
  [v \in Range(values) \ {Unknown} |->
     Cardinality({i \in DOMAIN values : values[i] = v})]

\* Series.value_counts().to_dict()
value_counts(values) ==
  [v \in Range(values) |-> Cardinality({i \in DOMAIN values : values[i] = v})]

\* the values of a preview row: None, a string or a float
NoneVal == [tag |-> "none", s |-> <<>>, v |-> 0]
StrVal(x) == [tag |-> "str", s |-> x, v |-> 0]
NumVal(x) == [tag |-> "num", s |-> <<>>, v |-> x[1]]

\* head that returns the whole frame
head_all(rows, n) == rows

\* DataFrame.head(n)
head(rows, n) == SubSeq(rows, 1, IF Len(rows) < n THEN Len(rows) ELSE n)

PreviewLimit == 100

\* one record of preview_df.to_dict(orient='records'): every column of the frame
preview_record(columns, r) ==
  [c \in Range(columns) |->
     LET cell == r[ColIdx(columns, c)]
     IN IF c \in Range(numeric_columns)
        THEN (IF to_numeric(cell) = NaN THEN NoneVal ELSE NumVal(to_numeric(cell)))
        ELSE IF c = type THEN StrVal(clean_type(cell))
        ELSE IF IsNA(cell) THEN NoneVal ELSE StrVal(cell)]

CSVParsingError(detail) == [ok |-> FALSE, detail |-> detail]

\* a frame that is never taken for empty
empty_never(rows) == FALSE

\* DataFrame.empty of a frame that has columns
empty(rows) == Len(rows) = 0


analyze_equipment_csv_from_uploaded_file(csv) ==
  IF Len(csv.headers) = 0
  THEN CSVParsingError(<<"CSV file is empty or malformed.">>)
  ELSE IF empty(csv.rows)
  THEN CSVParsingError(<<"The uploaded CSV file is empty.">>)
  ELSE
  LET columns == [i \in DOMAIN csv.headers |->
                    normalize_column_name(Lower(Strip(csv.headers[i])))]
      Missing(col) == col \notin Range(columns)
      missing_columns == SelectSeq(required_columns, Missing)
  IN IF Len(missing_columns) > 0
     THEN LET missing_readable ==
                [i \in DOMAIN missing_columns |-> readable_names[missing_columns[i]]]
          IN CSVParsingError(<<"Missing required columns: ">>
                               \o Join(missing_readable, ", "))
     ELSE
     LET df_clean == dropna_all(columns, csv.rows, required_columns)
     IN IF empty(df_clean)
        THEN CSVParsingError(<<"No valid data found after cleaning empty rows.">>)
        ELSE
        LET Numeric(col) ==
              [i \in DOMAIN df_clean |-> to_numeric(df_clean[i][ColIdx(columns, col)])]
            types == [i \in DOMAIN df_clean |->
                        clean_type(df_clean[i][ColIdx(columns, type)])]
        IN [ok |-> TRUE,
            total_count |-> Len(df_clean),
            avg_flowrate |-> safe_round(mean(Numeric(flowrate))),
            avg_pressure |-> safe_round(mean(Numeric(pressure))),
            avg_temperature |-> safe_round(mean(Numeric(temperature))),
            type_distribution |-> value_counts(types),
            preview_rows |->
              [i \in DOMAIN head(df_clean, PreviewLimit) |->
                 preview_record(columns, df_clean[i])]]

(***************************************************************************)
(* The inputs of the model: header lines and data rows.                    *)
(***************************************************************************)
H_EquipmentName == <<"E","q","u","i","p","m","e","n","t"," ","N","a","m","e">>
H_Type == <<"T","y","p","e">>
H_Flowrate == <<"F","l","o","w","r","a","t","e">>
H_Pressure == <<"P","r","e","s","s","u","r","e">>
H_Temperature == <<"T","e","m","p","e","r","a","t","u","r","e">>
H_Notes == <<"N","o","t","e","s">>

\* the five required headers, as documented
HeadersCanonical == <<H_EquipmentName, H_Type, H_Flowrate, H_Pressure, H_Temperature>>

\* another column order, letter case and spacing
HeadersShuffled ==
  << <<" ","T","E","M","P","E","R","A","T","U","R","E"," ">>,
     <<"p","r","e","s","s","u","r","e">>,
     <<"F","l","o","w","R","a","t","e">>,
     <<"T","Y","P","E">>,
     <<"e","q","u","i","p","m","e","n","t"," ","n","a","m","e">> >>

\* aliases of the second table, and a column the schema does not know
HeadersAliased ==
  << <<"N","a","m","e">>,
     <<"E","q","u","i","p","m","e","n","t"," ","T","y","p","e">>,
     <<"F","l","o","w"," ","R","a","t","e">>,
     H_Notes,
     H_Pressure,
     <<"T","e","m","p",".">> >>

HeadersNoTemperature == <<H_EquipmentName, H_Type, H_Flowrate, H_Pressure>>

HeadersNoFlowPressure == <<H_Temperature, H_Type, H_EquipmentName>>

HeadersNameType == << <<"N","a","m","e">>, H_Type >>

HeadersUnknownOnly == <<H_Notes>>

HeaderRows ==
  { HeadersCanonical, HeadersShuffled, HeadersAliased, HeadersNoTemperature,
    HeadersNoFlowPressure, HeadersNameType, HeadersUnknownOnly }

Blank == <<>>

Row(n, t, f, p, k) ==
  (equipment_name :> n) @@ (type :> t) @@ (flowrate :> f) @@ (pressure :> p)
    @@ (temperature :> k)

RowAllBlank == Row(Blank, Blank, Blank, Blank, Blank)

RowPump1 == Row(<<"P","1">>, <<"P","u","m","p">>, <<"1","0","0">>, <<"2">>, <<"8","0">>)

RowPump2 == Row(<<"P","2">>, <<"P","u","m","p"," ">>, <<"2","0","0">>, <<"4">>, <<"9","0">>)

RowValve == Row(<<"V","1">>, <<"V","a","l","v","e">>, <<"5","0">>, <<"1">>, <<"6","0">>)

RowNoPressure == Row(<<"P","1">>, <<"P","u","m","p">>, <<"1","0","0">>, Blank, <<"8","0">>)

RowBadFlowrate ==
  Row(<<"P","1">>, <<"P","u","m","p">>, <<"a","b","c">>, <<"2">>, <<"8","0">>)

RowNumbersOnly == Row(Blank, Blank, <<"1","0","0">>, <<"2">>, <<"8","0">>)

RowNoType == Row(<<"P","1">>, <<"N","A">>, <<"1","0","0">>, <<"2">>, <<"8","0">>)

RowSpaceType == Row(<<"P","1">>, <<" ">>, <<"1","0","0">>, <<"2">>, <<"8","0">>)

RowNameOnly == Row(<<"P","1">>, Blank, Blank, Blank, Blank)

RowBadTemperatureOnly == Row(Blank, Blank, Blank, Blank, <<"h","o","t">>)

RowBadPressure == Row(<<"V","1">>, <<"V","a","l","v","e">>, Blank, <<"x">>, Blank)

DataRows ==
  { RowAllBlank, RowPump1, RowPump2, RowValve, RowNoPressure, RowBadFlowrate,
    RowNumbersOnly, RowNoType, RowSpaceType, RowNameOnly, RowBadTemperatureOnly,
    RowBadPressure }

\* the cell of a column the schema does not know
ExtraCell == <<"o","k">>

\* the CSV file with the header line headers and one line per data row, a
\* column the schema does not know holding ExtraCell
Csv(headers, rows) ==
  LET cols == [i \in DOMAIN headers |-> normalize_column_name(headers[i])]
      Cells(r) == [i \in DOMAIN headers |->
                     IF cols[i] \in DOMAIN r THEN r[cols[i]] ELSE ExtraCell]
  IN [headers |-> headers, rows |-> [i \in DOMAIN rows |-> Cells(rows[i])]]

\* an empty file: no header line at all
EmptyCsv == [headers |-> <<>>, rows |-> <<>>]

(***************************************************************************)
(* Upload requests of the model: the multipart field "file" (absent, or a  *)
(* file name and a CSV content).                                           *)
(***************************************************************************)
NameCsv == <<"d","a","t","a",".","c","s","v">>
NameCsvUpper == <<"D","A","T","A",".","C","S","V">>
NameTxt == <<"d","a","t","a",".","t","x","t">>
NameCsvNoDot == <<"d","a","t","a","c","s","v">>

\* UploadedFile.size of the files of the model, in bytes
SmallSize == 1024

File(name, csv) == [present |-> TRUE, name |-> name, size |-> SmallSize, csv |-> csv]

NoFile == [present |-> FALSE, name |-> <<>>, size |-> 0, csv |-> EmptyCsv]

\* the limit of DatasetUploadSerializer.validate_file: 10 MB
MaxFileSize == 10 * 1024 * 1024

\* DatasetUploadSerializer.validate_file: the name ends in .csv and the size is
\* within the limit.  UploadDatasetView.post does not use the serializer.
validate_file(value) ==
  /\ EndsWith(Lower(value.name), <<".","c","s","v">>)
  /\ ~(value.size > MaxFileSize)

\* a file of csv followed by blank lines, which read_csv skips, up to size bytes
PaddedFile(name, csv, size) == [File(name, csv) EXCEPT !.size = size]

\* accepted, every numeric cell a number or blank
UploadGood ==
  File(NameCsv, Csv(HeadersCanonical, <<RowPump1, RowNoPressure, RowNumbersOnly>>))

\* accepted by the analysis, one numeric cell is text
UploadBadNumber ==
  File(NameCsvUpper, Csv(HeadersShuffled, <<RowPump2, RowBadFlowrate>>))

UploadNoTemperature == File(NameCsv, Csv(HeadersNoTemperature, <<RowPump1>>))

UploadNameType == File(NameCsv, Csv(HeadersNameType, <<RowPump1>>))

UploadTxt == File(NameTxt, Csv(HeadersCanonical, <<RowPump1>>))

UploadNoDot == File(NameCsvNoDot, Csv(HeadersCanonical, <<RowPump1>>))

UploadBlankRows == File(NameCsv, Csv(HeadersCanonical, <<RowAllBlank, RowAllBlank>>))

UploadNoRows == File(NameCsv, Csv(HeadersCanonical, <<>>))

UploadEmpty == File(NameCsv, EmptyCsv)

Uploads ==
  { NoFile, UploadGood, UploadBadNumber, UploadNoTemperature, UploadNameType,
    UploadTxt, UploadNoDot, UploadBlankRows, UploadNoRows, UploadEmpty }

\* the content of UploadGood, padded to one byte over 10 MiB
UploadLarge ==
  PaddedFile(NameCsv, Csv(HeadersCanonical, <<RowPump1, RowNoPressure, RowNumbersOnly>>),
             MaxFileSize + 1)

\* one data row more than the preview holds: the last row is the only valve
LongRows ==
  [i \in 1..(PreviewLimit + 1) |->
     IF i = 1 THEN RowPump1
     ELSE IF i = 2 THEN RowNoPressure
     ELSE IF i = PreviewLimit + 1 THEN RowValve
     ELSE RowNumbersOnly]

UploadLong == File(NameCsv, Csv(HeadersShuffled, LongRows))

\* the uploads of big files
BigUploads == {UploadLarge, UploadLong}

\* the uploads made next to reads and admin operations
OpsUploads == {UploadGood}

\* analyze_equipment_csv_from_uploaded_file on the uploads of the model, computed once
AnalysisOf ==
  [u \in Uploads \cup BigUploads |-> analyze_equipment_csv_from_uploaded_file(u.csv)]

(***************************************************************************)
(* State.                                                                  *)
(***************************************************************************)
VARIABLES
  csv_file,   \* the file handed to analyze_equipment_csv_from_uploaded_file
  analysis,   \* <<>> before the call, <<its result>> after it
  datasets,   \* the rows of the Dataset table
  equipment,  \* the rows of the Equipment table
  blobs,      \* the files under MEDIA_ROOT/uploads: Dataset id -> content
  clock,      \* timezone.now()
  next_id,    \* the next primary key of the Dataset table
  req,        \* the request each worker is serving
  before,     \* history: the store as the latest sequential request found it
  edits,      \* history: the number of operations made on the admin site
  tokens,     \* the rows of the Token table: username -> key
  login,      \* the latest request to LoginView and its response
  client      \* the desktop client: its widgets, its worker thread, its signals

vars ==
  <<csv_file, analysis, datasets, equipment, blobs, clock, next_id, req, before, edits,
    tokens, login, client>>

\* the state of the login endpoint and of the desktop client
aside == <<tokens, login, client>>

\* no request to LoginView yet
NoLogin == [data |-> <<>>, status |-> 0, body |-> <<>>]

\* MainWindow after init_ui: the button enabled, the progress bar hidden, no
\* DataWorker thread started yet, no signal waiting for the event loop
MainWindow(token) ==
  [token |-> token, upload_button |-> TRUE,
   upload_progress |-> [visible |-> FALSE, value |-> 0],
   threads |-> {}, started |-> 0, signals |-> <<>>, status_bar |-> "", message |-> "",
   uploads |-> 0]

\* self.worker = DataWorker(action); self.worker.start(): one more thread, the
\* id telling it from the threads started before
DataWorker(c, action) ==
  [c EXCEPT !.threads = @ \cup {[id |-> c.started + 1, action |-> action,
                                 pc |-> "run", i |-> 0]},
            !.started = @ + 1]

\* MainWindow.load_initial_data
load_initial_data(c) ==
  IF ~c.token
  THEN [c EXCEPT !.message = "Not authenticated. Please login first."]
  ELSE DataWorker([c EXCEPT !.status_bar = "Loading datasets..."], "load_datasets")

\* no token in the table, no login request, and the window of a client that
\* has logged in: MainWindow.__init__ ends with load_initial_data
AsideInit ==
  /\ tokens = <<>>
  /\ login = NoLogin
  /\ client = load_initial_data(MainWindow(TRUE))

store == <<datasets, equipment, blobs, clock, next_id, req, before, edits>>

Procs == {1, 2}

\* view is the view that serves the request ("" for the upload), pk the id in
\* the URL of a read, body the data of a 200 response, selected the ids of the
\* rows that the prune of the request selected
Idle ==
  [view |-> "", pk |-> 0, pc |-> "idle", file |-> NoFile, parsed |-> FALSE,
   result |-> <<>>, dataset |-> 0, count |-> 0, todelete |-> {}, selected |-> {},
   status |-> 0, error |-> "", detail |-> <<>>, body |-> <<>>]

StoreInit ==
  /\ datasets = {}
  /\ equipment = {}
  /\ blobs = <<>>
  /\ clock = 0
  /\ next_id = 1
  /\ req = [p \in Procs |-> Idle]
  /\ before = [datasets |-> {}, equipment |-> {}, blobs |-> {}]
  /\ edits = 0
  /\ AsideInit

InitCsv ==
  /\ \/ csv_file = EmptyCsv
     \/ \E h \in HeaderRows : \E k \in 0..MaxRows : \E rows \in [1..k -> DataRows] :
          csv_file = Csv(h, rows)
  /\ analysis = <<>>
  /\ StoreInit

Analyze ==
  /\ analysis = <<>>
  /\ analysis' = <<analyze_equipment_csv_from_uploaded_file(csv_file)>>
  /\ UNCHANGED <<aside, csv_file, store>>

NextCsv == Analyze

SpecCsv == InitCsv /\ [][NextCsv]_vars

(***************************************************************************)
(* The upload request, UploadDatasetView.post, in the steps at which it    *)
(* reads or writes the database and the upload directory.                  *)
(***************************************************************************)
KeepLast == 5

DotCsv == <<".","c","s","v">>

Ids(ds) == {d.id : d \in ds}

Snapshot ==
  [datasets |-> Ids(datasets), equipment |-> equipment, blobs |-> DOMAIN blobs]

Response(r, code, error, detail) ==
  [r EXCEPT !.pc = "done", !.status = code, !.error = error, !.detail = detail]

\* the requests that have been accepted and have not inserted their Dataset yet
Accepted == {p \in Procs : req[p].pc = "save"}

Budget(n) == next_id + Cardinality(Accepted) <= n

\* the extension test without the dot
is_csv_name_no_dot(name) == EndsWith(Lower(name), <<"c","s","v">>)

\* file_obj.name.lower().endswith('.csv')
is_csv_name(name) == EndsWith(Lower(name), DotCsv)

\* post, up to the call of Dataset.objects.create
Post(p, u) ==
  /\ req[p].pc \in {"idle", "done"}
  /\ LET r == [Idle EXCEPT !.file = u]
     IN req' = [req EXCEPT ![p] =
          IF ~u.present
          THEN Response(r, 400, "No file uploaded",
                        <<"Please provide a CSV file in the \"file\" field">>)
          ELSE IF ~is_csv_name(u.name)
          THEN Response(r, 400, "Invalid file type", <<"Only CSV files are allowed">>)
          ELSE LET analysis_result == AnalysisOf[u]
               IN IF ~analysis_result.ok
                  THEN Response([r EXCEPT !.parsed = TRUE], 400, "CSV parsing failed",
                                analysis_result.detail)
                  ELSE [r EXCEPT !.pc = "save", !.parsed = TRUE,
                                 !.result = <<analysis_result>>]]
  /\ UNCHANGED <<aside, csv_file, analysis, datasets, equipment, blobs, clock, next_id>>

\* the Dataset row that Dataset.objects.create builds from the analysis result
DatasetRow(id, now, file, a) ==
  [id |-> id,
   uploaded_at |-> now,
   original_filename |-> file.name,
   total_count |-> a.total_count,
   avg_flowrate |-> a.avg_flowrate,
   avg_pressure |-> a.avg_pressure,
   avg_temperature |-> a.avg_temperature,
   type_distribution |-> a.type_distribution,
   preview_rows |-> a.preview_rows]

\* Dataset.save: super().save() stores the file and inserts the row, uploaded_at
\* being the time of the insert (auto_now_add).  The clock may or may not have
\* moved on when the next row is inserted.
Save(p) ==
  /\ req[p].pc = "save"
  /\ datasets' = datasets \cup {DatasetRow(next_id, clock, req[p].file, req[p].result[1])}
  /\ blobs' = (next_id :> req[p].file.csv) @@ blobs
  /\ req' = [req EXCEPT ![p].pc = "count", ![p].dataset = next_id, ![p].result = <<>>]
  /\ next_id' = next_id + 1
  /\ \E t \in {clock, clock + 1} : clock' = t
  /\ UNCHANGED <<aside, csv_file, analysis, equipment>>

\* prune_old_datasets: all_datasets.count() > 5
Count(p) ==
  /\ req[p].pc = "count"
  /\ req' = [req EXCEPT ![p].count = Cardinality(datasets),
                         ![p].pc = IF Cardinality(datasets) > KeepLast
                                   THEN "select" ELSE "equip"]
  /\ UNCHANGED <<aside, csv_file, analysis, datasets, equipment, blobs, clock, next_id>>

\* FirstN with the slice taken one place too late ([6:] for [5:])
FirstN_late(ds, n) ==
  IF Cardinality(ds) <= n + 1 THEN {ds}
  ELSE {keep \in SUBSET ds :
          /\ Cardinality(keep) = n + 1
          /\ \A k \in keep : \A d \in ds \ keep : k.uploaded_at >= d.uploaded_at}

\* the sets of rows that order_by('-uploaded_at') can put in the first n places:
\* rows of equal uploaded_at come in an order the database chooses
FirstN(ds, n) ==
  IF Cardinality(ds) <= n THEN {ds}
  ELSE {keep \in SUBSET ds :
          /\ Cardinality(keep) = n
          /\ \A k \in keep : \A d \in ds \ keep : k.uploaded_at >= d.uploaded_at}

\* prune_old_datasets: the query all_datasets[5:], evaluated by the for loop
Select(p) ==
  /\ req[p].pc = "select"
  /\ \E keep \in FirstN(datasets, KeepLast) :
       req' = [req EXCEPT ![p].todelete = datasets \ keep,
                          ![p].selected = Ids(datasets \ keep),
                          ![p].pc = IF datasets \ keep = {} THEN "equip" ELSE "delete"]
  /\ UNCHANGED <<aside, csv_file, analysis, datasets, equipment, blobs, clock, next_id>>

\* delete with the row left in the table
delete_skipped(ds, id) == ds

\* Model.delete: the row goes, and its Equipment rows with it (on_delete=CASCADE)
delete(ds, id) == {d \in ds : d.id # id}

cascade(eq, id) == {e \in eq : e.dataset # id}

\* os.remove of the file of Dataset id, when os.path.exists finds it
remove(files, id) == [i \in DOMAIN files \ {id} |-> files[i]]

\* the subclasses of OSError that os.remove raises
OSErrors == {"PermissionError", "FileNotFoundError", "IsADirectoryError"}

\* what the removal of the file of Dataset id can end in: nothing is attempted
\* when os.path.exists does not find the file
RemoveOutcomes(files, id) ==
  IF id \in DOMAIN files THEN {"removed"} \cup OSErrors ELSE {"skipped"}

\* an except clause that lets the errors of os.remove through
caught_ValueError_only(exc) == exc = "ValueError"

\* prune_old_datasets: except (ValueError, OSError): pass
caught(exc) == exc = "ValueError" \/ exc \in OSErrors

\* deleting a row that is gone raises
delete_raises_DoesNotExist(ds, id) == id \notin Ids(ds)

\* Model.delete on a row that another request has deleted: DELETE affects no
\* row, and nothing is raised
delete_raises(ds, id) == FALSE

\* prune_old_datasets: one turn of the for loop, newest selected row first.
\* An exception that leaves the loop leaves Dataset.objects.create and is
\* answered by the except Exception clause of post.
Delete(p) ==
  /\ req[p].pc = "delete"
  /\ \E d \in req[p].todelete :
       /\ \A o \in req[p].todelete : d.uploaded_at >= o.uploaded_at
       /\ \E out \in RemoveOutcomes(blobs, d.id) :
            IF out \in OSErrors /\ ~caught(out)
            THEN /\ req' = [req EXCEPT ![p] = Response(@, 500, "Upload failed", <<out>>)]
                 /\ UNCHANGED <<datasets, equipment, blobs>>
            ELSE /\ blobs' = IF out = "removed" THEN remove(blobs, d.id) ELSE blobs
                 /\ IF delete_raises(datasets, d.id)
                    THEN /\ req' = [req EXCEPT ![p] =
                                      Response(@, 500, "Upload failed", <<"DoesNotExist">>)]
                         /\ UNCHANGED <<datasets, equipment>>
                    ELSE /\ datasets' = delete(datasets, d.id)
                         /\ equipment' = cascade(equipment, d.id)
                         /\ req' = [req EXCEPT
                                      ![p].todelete = @ \ {d},
                                      ![p].pc = IF req[p].todelete = {d}
                                                THEN "equip" ELSE "delete"]
  /\ UNCHANGED <<aside, csv_file, analysis, clock, next_id>>

\* float(cell) of the view raises ValueError
FloatRaises(cell) == ~IsNA(cell) /\ ~IsDigits(cell)

\* the rows of the saved file that the view turns into Equipment objects: all but
\* those with neither a name nor a type
EquipmentRows(df) ==
  LET columns == [i \in DOMAIN df.headers |-> normalize_column_name(df.headers[i])]
  IN {i \in DOMAIN df.rows :
        ~(/\ IsNA(df.rows[i][ColIdx(columns, equipment_name)])
          /\ IsNA(df.rows[i][ColIdx(columns, type)]))}

\* building the Equipment objects raises ValueError: some float(cell) does
EquipmentRaises(df) ==
  LET columns == [i \in DOMAIN df.headers |-> normalize_column_name(df.headers[i])]
  IN \E i \in EquipmentRows(df) : \E k \in DOMAIN numeric_columns :
       FloatRaises(df.rows[i][ColIdx(columns, numeric_columns[k])])

\* str(cell).strip() of a cell that is not NaN, '' of one that is
StrField(cell) == IF IsNA(cell) THEN <<>> ELSE Strip(cell)

\* float(cell) of a cell that is not NaN, in hundredths, 0.0 of one that is
FloatField(cell) == IF IsNA(cell) THEN 0 ELSE 100 * IntValue(cell)

\* the fields of the Equipment object built from row i of the saved file; row
\* stands for the place of the object in the order of the primary keys
EquipmentFields(df, i) ==
  LET columns == [j \in DOMAIN df.headers |-> normalize_column_name(df.headers[j])]
      Cell(col) == df.rows[i][ColIdx(columns, col)]
  IN [row |-> i,
      name |-> StrField(Cell(equipment_name)),
      type |-> StrField(Cell(type)),
      flowrate |-> FloatField(Cell(flowrate)),
      pressure |-> FloatField(Cell(pressure)),
      temperature |-> FloatField(Cell(temperature))]

\* the three above on the files of the model, computed once
SavedFiles == {u.csv : u \in Uploads \cup BigUploads}

EquipmentRowsOf == [df \in SavedFiles |-> EquipmentRows(df)]

EquipmentRaisesOf == [df \in SavedFiles |-> EquipmentRaises(df)]

EquipmentFieldsOf ==
  [df \in SavedFiles |->
     IF EquipmentRaises(df) THEN {} ELSE {EquipmentFields(df, i) : i \in EquipmentRows(df)}]

EquipmentObjects(id, df) ==
  {[dataset |-> id, row |-> e.row, name |-> e.name, type |-> e.type,
    flowrate |-> e.flowrate, pressure |-> e.pressure, temperature |-> e.temperature] :
     e \in EquipmentFieldsOf[df]}

\* post, after Dataset.objects.create: the Equipment rows and the response.
\* When the saved file is gone, read_csv raises and the rows are skipped.
\* the insert of the Equipment rows without the check of the foreign key
Equip_unchecked(p) ==
  /\ req[p].pc = "equip"
  /\ LET id == req[p].dataset
         df == IF id \in DOMAIN blobs THEN blobs[id] ELSE EmptyCsv
     IN IF EquipmentRaisesOf[df]
        THEN /\ req' = [req EXCEPT ![p] =
                          Response(@, 500, "Upload failed", <<"ValueError">>)]
             /\ UNCHANGED equipment
        ELSE /\ equipment' = equipment \cup EquipmentObjects(id, df)
             /\ req' = [req EXCEPT ![p] = Response(@, 201, "", <<>>)]
  /\ UNCHANGED <<aside, csv_file, analysis, datasets, blobs, clock, next_id>>

Equip(p) ==
  /\ req[p].pc = "equip"
  /\ LET id == req[p].dataset
         df == IF id \in DOMAIN blobs THEN blobs[id] ELSE EmptyCsv
     IN IF EquipmentRaisesOf[df]
        THEN /\ req' = [req EXCEPT ![p] =
                          Response(@, 500, "Upload failed", <<"ValueError">>)]
             /\ UNCHANGED equipment
        ELSE IF EquipmentObjects(id, df) # {} /\ id \notin Ids(datasets)
        THEN \* the row the foreign key names is gone: the insert is refused, or
             \* (INSERT IGNORE) the rows are dropped without an error
             \E ignored \in BOOLEAN :
               /\ req' = [req EXCEPT ![p] =
                            IF ignored THEN Response(@, 201, "", <<>>)
                            ELSE Response(@, 500, "Upload failed", <<"IntegrityError">>)]
               /\ UNCHANGED equipment
        ELSE /\ equipment' = equipment \cup EquipmentObjects(id, df)
             /\ req' = [req EXCEPT ![p] = Response(@, 201, "", <<>>)]
  /\ UNCHANGED <<aside, csv_file, analysis, datasets, blobs, clock, next_id>>

StoreOnly == csv_file = EmptyCsv /\ analysis = <<>> /\ StoreInit

\* uploads one at a time
Init == StoreOnly

NextSeq ==
  \/ Budget(MaxSeqUploads) /\ before' = Snapshot /\ UNCHANGED edits
       /\ \E u \in Uploads : Post(1, u)
  \/ Save(1) /\ UNCHANGED <<before, edits>>
  \/ Count(1) /\ UNCHANGED <<before, edits>>
  \/ Select(1) /\ UNCHANGED <<before, edits>>
  \/ Delete(1) /\ UNCHANGED <<before, edits>>
  \/ Equip(1) /\ UNCHANGED <<before, edits>>

SpecSeq == Init /\ [][NextSeq]_vars

\* overlapping uploads, on a store that earlier uploads have filled to the limit
Stored == KeepLast

StoredFile == UploadGood

\* the timestamps of the stored rows: two inserted within one tick of the clock,
\* the others one tick apart
StoredAt(i) == IF i = 1 THEN 0 ELSE i - 2

InitFilled ==
  /\ csv_file = EmptyCsv
  /\ analysis = <<>>
  /\ datasets =
       {DatasetRow(i, StoredAt(i), StoredFile, AnalysisOf[StoredFile]) : i \in 1..Stored}
  /\ clock = StoredAt(Stored)
  /\ equipment = UNION {EquipmentObjects(i, StoredFile.csv) : i \in 1..Stored}
  /\ blobs = [i \in 1..Stored |-> StoredFile.csv]
  /\ next_id = Stored + 1
  /\ req = [p \in Procs |-> Idle]
  /\ before = [datasets |-> {}, equipment |-> {}, blobs |-> {}]
  /\ edits = 0
  /\ AsideInit

ConcurrentUploads == {UploadGood, UploadBadNumber}

Next ==
  \E p \in Procs :
    \/ Budget(Stored + MaxUploads) /\ UNCHANGED <<before, edits>>
         /\ \E u \in ConcurrentUploads : Post(p, u)
    \/ Save(p) /\ UNCHANGED <<before, edits>>
    \/ Count(p) /\ UNCHANGED <<before, edits>>
    \/ Select(p) /\ UNCHANGED <<before, edits>>
    \/ Delete(p) /\ UNCHANGED <<before, edits>>
    \/ Equip(p) /\ UNCHANGED <<before, edits>>

Spec == InitFilled /\ [][Next]_vars

\* Datasets created in a run of uploads of big files
MaxBigUploads == 2

\* uploads of big files, one at a time, on a store filled to the limit
NextBig ==
  \/ Budget(Stored + MaxBigUploads) /\ before' = Snapshot /\ UNCHANGED edits
       /\ \E u \in BigUploads : Post(1, u)
  \/ Save(1) /\ UNCHANGED <<before, edits>>
  \/ Count(1) /\ UNCHANGED <<before, edits>>
  \/ Select(1) /\ UNCHANGED <<before, edits>>
  \/ Delete(1) /\ UNCHANGED <<before, edits>>
  \/ Equip(1) /\ UNCHANGED <<before, edits>>

SpecBig == InitFilled /\ [][NextBig]_vars

(***************************************************************************)
(* The read views (dataset list, dataset detail, PDF report) and the admin  *)
(* site (DatasetAdmin, EquipmentAdmin), next to uploads made one at a time  *)
(* on a store that earlier uploads have filled to the limit.                *)
(***************************************************************************)
\* Datasets created in a run of uploads next to reads and admin operations
MaxOpsUploads == 1

\* operations made on the admin site in such a run
MaxEdits == 2

\* DatasetSerializer: the fields of the list view
DatasetSerializer(d) ==
  [id |-> d.id,
   original_filename |-> d.original_filename,
   uploaded_at |-> d.uploaded_at,
   total_count |-> d.total_count,
   avg_flowrate |-> d.avg_flowrate,
   avg_pressure |-> d.avg_pressure,
   avg_temperature |-> d.avg_temperature,
   type_distribution |-> d.type_distribution]

\* the Equipment rows of Dataset id in the order of their primary keys
EquipmentOf(eq, id) ==
  LET rows == {e \in eq : e.dataset = id}
  IN [i \in 1..Cardinality(rows) |->
        CHOOSE e \in rows : Cardinality({o \in rows : o.row < e.row}) = i - 1]

\* one entry of the preview that get_preview_rows builds from an Equipment row
equipment_preview(e) ==
     (equipment_name :> StrVal(e.name))
  @@ (type :> StrVal(e.type))
  @@ (flowrate :> NumVal(<<e.flowrate>>))
  @@ (pressure :> NumVal(<<e.pressure>>))
  @@ (temperature :> NumVal(<<e.temperature>>))

\* get_preview_rows that always returns the stored rows
get_preview_rows_stored(obj, eq) == obj.preview_rows

\* DatasetDetailSerializer.get_preview_rows: the stored rows when there are
\* some, else rows built from the first 100 Equipment rows of the dataset
get_preview_rows(obj, eq) ==
  IF Len(obj.preview_rows) > 0
  THEN obj.preview_rows
  ELSE LET equipment_data == head(EquipmentOf(eq, obj.id), PreviewLimit)
       IN [i \in DOMAIN equipment_data |-> equipment_preview(equipment_data[i])]

\* DatasetDetailSerializer: the fields of the list view and the preview rows
DatasetDetailSerializer(d, eq) ==
  [summary |-> DatasetSerializer(d), preview_rows |-> get_preview_rows(d, eq)]

\* the orders in which order_by('-uploaded_at') can return the rows ds
RECURSIVE Orders(_)
Orders(ds) ==
  IF ds = {} THEN {<<>>}
  ELSE UNION {{<<d>> \o t : t \in Orders(ds \ {d})} :
                d \in {m \in ds : \A o \in ds : m.uploaded_at >= o.uploaded_at}}

Serving(p, view, pk) == [Idle EXCEPT !.view = view, !.pk = pk]

ReadUnchanged ==
  UNCHANGED <<aside, csv_file, analysis, datasets, equipment, blobs, clock, next_id, before, edits>>

\* DatasetListView.list: order_by('-uploaded_at')[:5]
DatasetListView(p) ==
  /\ req[p].pc \in {"idle", "done"}
  /\ \E keep \in FirstN(datasets, KeepLast) : \E queryset \in Orders(keep) :
       req' = [req EXCEPT ![p] =
         [Response(Serving(p, "list", 0), 200, "", <<>>) EXCEPT
            !.body = <<[i \in DOMAIN queryset |-> DatasetSerializer(queryset[i])]>>]]
  /\ ReadUnchanged

\* get_object_or_404 raises Http404, an Exception: the except clause of the view
\* answers it
NotFound(r, error) == Response(r, 500, error, <<"No Dataset matches the given query.">>)

\* a detail view that marks the row it reads as the most recent one
DatasetDetailView_touch(p, pk) ==
  /\ req[p].pc \in {"idle", "done"}
  /\ pk \in Ids(datasets)
  /\ LET obj == CHOOSE d \in datasets : d.id = pk
     IN /\ datasets' = (datasets \ {obj}) \cup {[obj EXCEPT !.uploaded_at = clock + 1]}
        /\ req' = [req EXCEPT ![p] =
             [Response(Serving(p, "detail", pk), 200, "", <<>>) EXCEPT
                !.body = <<DatasetDetailSerializer(obj, equipment)>>]]
  /\ UNCHANGED <<aside, csv_file, analysis, equipment, blobs, clock, next_id, before, edits>>

\* DatasetDetailView.retrieve
DatasetDetailView(p, pk) ==
  /\ req[p].pc \in {"idle", "done"}
  /\ req' = [req EXCEPT ![p] =
       IF pk \in Ids(datasets)
       THEN LET obj == CHOOSE d \in datasets : d.id = pk
            IN [Response(Serving(p, "detail", pk), 200, "", <<>>) EXCEPT
                  !.body = <<DatasetDetailSerializer(obj, equipment)>>]
       ELSE NotFound(Serving(p, "detail", pk), "Failed to fetch dataset details")]
  /\ ReadUnchanged

\* generate_dataset_report_pdf: the Equipment rows of the report
ReportLimit == 10

\* DatasetPDFReportView.get: the content of the report
DatasetPDFReportView(p, pk) ==
  /\ req[p].pc \in {"idle", "done"}
  /\ req' = [req EXCEPT ![p] =
       IF pk \in Ids(datasets)
       THEN LET dataset == CHOOSE d \in datasets : d.id = pk
            IN [Response(Serving(p, "pdf", pk), 200, "", <<>>) EXCEPT
                  !.body = <<[summary |-> DatasetSerializer(dataset),
                              equipment |->
                                head(EquipmentOf(equipment, pk), ReportLimit)]>>]
       ELSE NotFound(Serving(p, "pdf", pk), "PDF generation failed")]
  /\ ReadUnchanged

\* the admin site is used between two requests
AdminTurn == req[1].pc \in {"idle", "done"} /\ edits < MaxEdits

AdminUnchanged == UNCHANGED <<aside, csv_file, analysis, clock, next_id, req, before>>

\* the value an edit on the admin site gives to a text field
Edited == <<"e","d","i","t","e","d">>

\* EquipmentAdmin, change form: name, type, flowrate, pressure and temperature
\* can be edited, dataset is read-only
EquipmentChange(e) ==
  /\ AdminTurn
  /\ e \in equipment
  /\ equipment' = (equipment \ {e}) \cup {[e EXCEPT !.name = Edited, !.flowrate = 0]}
  /\ edits' = edits + 1
  /\ UNCHANGED <<datasets, blobs>>
  /\ AdminUnchanged

\* EquipmentAdmin, delete
EquipmentDelete(e) ==
  /\ AdminTurn
  /\ e \in equipment
  /\ equipment' = equipment \ {e}
  /\ edits' = edits + 1
  /\ UNCHANGED <<datasets, blobs>>
  /\ AdminUnchanged

\* DatasetAdmin, change form with preview_rows (not read-only) emptied: the row
\* is saved by Dataset.save, which prunes
DatasetChange(pk) ==
  /\ AdminTurn
  /\ pk \in Ids(datasets)
  /\ LET obj == CHOOSE d \in datasets : d.id = pk
         saved == (datasets \ {obj}) \cup {[obj EXCEPT !.preview_rows = <<>>]}
     IN \E keep \in FirstN(saved, KeepLast) :
          \E left \in SUBSET (Ids(saved \ keep) \cap DOMAIN blobs) :
            /\ datasets' = keep
            /\ equipment' = {e \in equipment : e.dataset \in Ids(keep)}
            /\ blobs' = [i \in (DOMAIN blobs \ Ids(saved \ keep)) \cup left |-> blobs[i]]
  /\ edits' = edits + 1
  /\ AdminUnchanged

\* Model.delete that removes the file of the row as well
model_delete_file(files, id) == [i \in DOMAIN files \ {id} |-> files[i]]

\* Model.delete leaves the file of a FileField where it is; Dataset does not
\* override delete and no signal handler removes the file
model_delete(files, id) == files

\* DatasetAdmin, delete (Dataset.delete, as in the tests of the models)
DatasetDelete(pk) ==
  /\ AdminTurn
  /\ pk \in Ids(datasets)
  /\ datasets' = delete(datasets, pk)
  /\ equipment' = cascade(equipment, pk)
  /\ blobs' = model_delete(blobs, pk)
  /\ edits' = edits + 1
  /\ AdminUnchanged

\* the ids a read names: the oldest Dataset, the newest and one that is not in use
Pks == {1, next_id - 1, next_id}

\* the Datasets the admin works on: the oldest and the newest
AdminPks == {1, next_id - 1}

NextOps ==
  \/ Budget(Stored + MaxOpsUploads) /\ before' = Snapshot /\ UNCHANGED edits
       /\ \E u \in OpsUploads : Post(1, u)
  \/ Save(1) /\ UNCHANGED <<before, edits>>
  \/ Count(1) /\ UNCHANGED <<before, edits>>
  \/ Select(1) /\ UNCHANGED <<before, edits>>
  \/ Delete(1) /\ UNCHANGED <<before, edits>>
  \/ Equip(1) /\ UNCHANGED <<before, edits>>
  \/ DatasetListView(1)
  \/ \E pk \in Pks : DatasetDetailView(1, pk)
  \/ \E pk \in Pks : DatasetPDFReportView(1, pk)
  \/ \E e \in equipment : e.dataset \in AdminPks /\ EquipmentChange(e)
  \/ \E e \in equipment : e.dataset \in AdminPks /\ EquipmentDelete(e)
  \/ \E pk \in AdminPks : DatasetChange(pk)
  \/ \E pk \in AdminPks : DatasetDelete(pk)

SpecOps == InitFilled /\ [][NextOps]_vars

(***************************************************************************)
(* Properties.                                                             *)
(***************************************************************************)
\* the request of worker p is not inside Dataset.objects.create
Returned(p) == req[p].pc \notin {"save", "count", "select", "delete"}

\* the request of worker p has been answered
Answered(p) == req[p].pc = "done"

Failed(p) == Answered(p) /\ req[p].status \in {400, 500}

Min(a, b) == IF a < b THEN a ELSE b

\* C1: with creations executed one at a time, whenever a creation (save and its
\* prune) has returned, the Dataset table holds at most 5 rows.
C1_AtMostFiveAfterCreate ==
  Returned(1) => Cardinality(datasets) <= 5

\* a creation that had to prune has returned
C1_Witness ==
  /\ req[1].pc = "equip"
  /\ req[1].count = 6
  /\ Cardinality(datasets) = 5

\* C2: after k sequential uploads the table holds exactly the min(k, 5) rows of
\* greatest uploaded_at, and after 6 uploads the one row evicted is the one
\* uploaded first.
C2_KeepsMostRecent ==
  Returned(1) =>
    LET k == next_id - 1
    IN /\ Cardinality(datasets) = Min(k, 5)
       /\ Ids(datasets) \subseteq 1..k
       /\ (k = 6 => Ids(datasets) = 2..6)

\* C3: an upload answered with 400 or 500 leaves the Dataset rows, the Equipment
\* rows and the stored files as it found them, and every Dataset row in the table
\* has its Equipment rows.
C3_FailedUploadChangesNothing ==
  Failed(1) =>
    /\ Snapshot = before
    /\ \A d \in datasets : \E e \in equipment : e.dataset = d.id

\* C4: once all of the overlapping uploads have been answered, the Dataset table
\* holds at most 5 rows.
C4_AtMostFiveWhenAllDone ==
  (\A p \in Procs : req[p].pc \in {"idle", "done"}) => Cardinality(datasets) <= 5

\* both uploads inserted their row before either counted, and both are answered
C4_Witness ==
  /\ \A p \in Procs : Answered(p) /\ req[p].count = 7
  /\ Cardinality(datasets) = 5

(***************************************************************************)
(* Properties of the analysis, stated on the file and on the result.       *)
(***************************************************************************)
\* the analysis has run and has returned a summary
Summary == analysis # <<>> /\ analysis[1].ok

\* the canonical name a header stands for
Canonical(h) == normalize_column_name(h)

HeaderSet(csv) == {Canonical(csv.headers[i]) : i \in DOMAIN csv.headers}

RequiredSet == {equipment_name, type, flowrate, pressure, temperature}

HasRequiredHeaders(csv) == RequiredSet \subseteq HeaderSet(csv)

\* the cell of data row i under the header that stands for col
CellOf(csv, i, col) ==
  csv.rows[i][CHOOSE j \in DOMAIN csv.headers : Canonical(csv.headers[j]) = col]

\* the data rows in which all five required fields are blank
BlankRows(csv) ==
  {i \in DOMAIN csv.rows : \A col \in RequiredSet : CellOf(csv, i, col) \in NAStrings}

\* C5: for a CSV with the five required headers and a row that is not blank,
\* total_count is the number of data rows minus the rows whose five required
\* fields are all blank; a row with only some fields blank is counted.
C5_TotalCount ==
  (/\ analysis # <<>>
   /\ HasRequiredHeaders(csv_file)
   /\ BlankRows(csv_file) # DOMAIN csv_file.rows)
  => /\ analysis[1].ok
     /\ analysis[1].total_count = Len(csv_file.rows) - Cardinality(BlankRows(csv_file))

\* a blank row was dropped and a row with only the pressure blank was counted
C5_Witness ==
  /\ Summary
  /\ csv_file.headers = HeadersShuffled
  /\ Len(csv_file.rows) = 3
  /\ Cardinality(BlankRows(csv_file)) = 1
  /\ analysis[1].total_count = 2
  /\ \E i \in DOMAIN csv_file.rows :
       /\ CellOf(csv_file, i, pressure) = Blank
       /\ CellOf(csv_file, i, flowrate) # Blank

RECURSIVE SumOver(_, _)
SumOver(f, keys) ==
  IF keys = {} THEN 0
  ELSE LET k == CHOOSE x \in keys : TRUE IN f[k] + SumOver(f, keys \ {k})

\* C6: in every summary the counts of type_distribution add up to total_count,
\* and every distinct cleaned type is a key.
C6_TypeDistribution ==
  Summary =>
    LET a == analysis[1]
    IN /\ SumOver(a.type_distribution, DOMAIN a.type_distribution) = a.total_count
       /\ \A i \in DOMAIN a.preview_rows :
            a.preview_rows[i][type].s \in DOMAIN a.type_distribution

\* three rows of two types, one of them the type filled in for a missing one
C6_Witness ==
  /\ Summary
  /\ analysis[1].total_count = 3
  /\ Cardinality(DOMAIN analysis[1].type_distribution) = 2
  /\ Unknown \in DOMAIN analysis[1].type_distribution

Abs(x) == IF x < 0 THEN -x ELSE x

\* avg is what column col of the cleaned rows averages to: None when no row has
\* a number there, else the mean of the numbers alone, to two decimals
IsAverageOf(avg, rows, col) ==
  LET nums == {i \in DOMAIN rows : rows[i][col].tag = "num"}
      total == SumOver([i \in nums |-> rows[i][col].v], nums)
  IN /\ (avg = NaN <=> nums = {})
     /\ (nums # {} => 2 * Abs(Cardinality(nums) * avg[1] - total) <= Cardinality(nums))

HasCsvExtension(name) ==
  /\ Len(name) >= 4
  /\ name[Len(name) - 3] = "."
  /\ name[Len(name) - 2] \in {"c", "C"}
  /\ name[Len(name) - 1] \in {"s", "S"}
  /\ name[Len(name)] \in {"v", "V"}

\* a numeric cell that holds text
Unparseable(cell) == cell \notin NAStrings /\ ~IsDigits(cell)

HasUnparseable(csv) ==
  \E i \in DOMAIN csv.rows : \E col \in {flowrate, pressure, temperature} :
    Unparseable(CellOf(csv, i, col))

\* C8: an upload with text in a numeric column and the five required headers is
\* answered with success, the row counted and the Dataset stored.
C8_UnparseableAccepted ==
  \A p \in Procs :
    (/\ Answered(p)
     /\ req[p].file.present
     /\ HasCsvExtension(req[p].file.name)
     /\ HasRequiredHeaders(req[p].file.csv)
     /\ HasUnparseable(req[p].file.csv))
    => /\ req[p].status = 201
       /\ \E d \in datasets :
            /\ d.id = req[p].dataset
            /\ d.total_count = Len(req[p].file.csv.rows)

\* the headers among the five required ones that the file lacks
MissingSet(csv) == RequiredSet \ HeaderSet(csv)

\* C9: an upload with a data row that lacks the set M of required headers, M not
\* empty, is answered 400 with 'Missing required columns: ' and exactly the
\* readable names of M, and stores nothing.
C9_MissingColumns ==
  (/\ Answered(1)
   /\ req[1].file.present
   /\ HasCsvExtension(req[1].file.name)
   /\ Len(req[1].file.csv.rows) >= 1
   /\ MissingSet(req[1].file.csv) # {})
  => LET detail == req[1].detail
         M == MissingSet(req[1].file.csv)
     IN /\ req[1].status = 400
        /\ Len(detail) = 2 * Cardinality(M)
        /\ detail[1] = "Missing required columns: "
        /\ {detail[2 * k] : k \in 1..Cardinality(M)} = {readable_names[m] : m \in M}
        /\ \A k \in 1..(Cardinality(M) - 1) : detail[2 * k + 1] = ", "
        /\ req[1].dataset = 0
        /\ Snapshot = before

\* the upload of a file with the columns Name and Type only has been answered
C9_Witness ==
  /\ Answered(1)
  /\ req[1].file = UploadNameType
  /\ req[1].status = 400
  /\ req[1].detail = <<"Missing required columns: ", "Flowrate", ", ", "Pressure",
                       ", ", "Temperature">>

\* C10: an upload whose file name does not end in '.csv' is answered 400 without
\* the content having been parsed, and creates no Dataset.
C10_ExtensionCheckedFirst ==
  \A p \in Procs :
    (req[p].file.present /\ ~HasCsvExtension(req[p].file.name))
    => /\ ~req[p].parsed
       /\ req[p].pc = "done"
       /\ req[p].status = 400
       /\ req[p].dataset = 0
       /\ (p = 1 => Snapshot = before)

\* the upload of data.txt, whose content is a valid CSV, has been answered
C10_Witness ==
  /\ Answered(1)
  /\ req[1].file = UploadTxt
  /\ req[1].status = 400
  /\ req[1].error = "Invalid file type"

(***************************************************************************)
(* Properties of the size limit and of the stored preview.                 *)
(***************************************************************************)
\* C11: an upload whose file is larger than 10 MiB is never parsed and creates
\* no Dataset.
C11_LargeFileRejected ==
  \A p \in Procs :
    (req[p].file.present /\ req[p].file.size > 10 * 1024 * 1024)
    => /\ ~req[p].parsed
       /\ req[p].dataset = 0

\* the data rows that are not blank in all five required fields, in file order
CleanedRows(csv) ==
  LET kept == DOMAIN csv.rows \ BlankRows(csv)
  IN [i \in 1..Cardinality(kept) |->
        CHOOSE r \in kept : Cardinality({o \in kept : o < r}) = i - 1]

\* what a preview row shows for column col of a cell: a number for a numeric
\* cell that holds one, null for one that does not, the text otherwise
Shown(col, cell) ==
  IF col \in {flowrate, pressure, temperature}
  THEN IF cell \in NAStrings \/ Unparseable(cell)
       THEN [tag |-> "none", s |-> <<>>, v |-> 0]
       ELSE [tag |-> "num", s |-> <<>>, v |-> 100 * IntValue(cell)]
  ELSE IF col = type
  THEN [tag |-> "str", s |-> IF cell \in NAStrings THEN Unknown ELSE Strip(cell), v |-> 0]
  ELSE IF cell \in NAStrings
  THEN [tag |-> "none", s |-> <<>>, v |-> 0]
  ELSE [tag |-> "str", s |-> cell, v |-> 0]

\* the first min(100, n) of the n cleaned rows of the file csv, as a preview
\* shows them
FirstCleaned(csv) ==
  LET cleaned == CleanedRows(csv)
  IN [i \in 1..Min(100, Len(cleaned)) |->
        [col \in RequiredSet |-> Shown(col, CellOf(csv, cleaned[i], col))]]

\* the files with the five required headers and a row that is not blank
FilesWithData ==
  {df \in SavedFiles : HasRequiredHeaders(df) /\ BlankRows(df) # DOMAIN df.rows}

FirstCleanedOf == [df \in FilesWithData |-> FirstCleaned(df)]

\* rows is the preview of the file csv
IsPreviewOf(rows, csv) ==
  /\ Len(rows) = Len(FirstCleanedOf[csv])
  /\ \A i \in DOMAIN rows : \A col \in RequiredSet :
       rows[i][col] = FirstCleanedOf[csv][i][col]

C13_FiveKeys ==
  Summary =>
    \A i \in DOMAIN analysis[1].preview_rows :
      DOMAIN analysis[1].preview_rows[i] = RequiredSet

(***************************************************************************)
(* Properties of the reads, of the admin operations and of the prune.      *)
(***************************************************************************)
\* what the detail view returns for the Dataset row d when the Equipment table
\* holds eq
DetailOf(d, eq) == DatasetDetailSerializer(d, eq)

\* C14: a step that changes Equipment rows and no Dataset row changes what the
\* detail view returns for no stored Dataset.
C14_DetailIndependentOfEquipment ==
  [][(equipment' # equipment /\ datasets' = datasets)
       => \A d \in datasets : DetailOf(d, equipment') = DetailOf(d, equipment)]_vars

\* C15: every Equipment row and every stored file belongs to a Dataset row that
\* is in the table.
C15_NothingLeftOfDeleted ==
  /\ \A e \in equipment : e.dataset \in Ids(datasets)
  /\ DOMAIN blobs \subseteq Ids(datasets)

\* C16: every turn of the loop of the prune deletes the row it is at, whatever
\* the removal of the file ends in, and goes on with the request.
C16_PruneDeletesRecord ==
  [][(req[1].pc = "delete" /\ req'[1] # req[1])
       => /\ \E d \in req[1].todelete :
               /\ d.id \notin Ids(datasets')
               /\ req'[1].todelete = req[1].todelete \ {d}
          /\ req'[1].pc \in {"delete", "equip"}
          /\ req'[1].status = 0]_vars

\* a prune has deleted a row whose file could not be removed, and the upload
\* has been answered with success
C16_Witness ==
  /\ Answered(1)
  /\ req[1].status = 201
  /\ req[1].selected # {}
  /\ req[1].selected \cap Ids(datasets) = {}
  /\ req[1].selected \subseteq DOMAIN blobs

ReadViews == {"list", "detail", "pdf"}

\* C18: a read (list, detail, PDF report) changes no Dataset row, uploaded_at
\* included, no Equipment row and no file.
C18_ReadsChangeNothing ==
  [][(req'[1].view \in ReadViews /\ (req'[1].view # req[1].view \/ req'[1] # req[1]))
       => /\ datasets' = datasets
          /\ equipment' = equipment
          /\ blobs' = blobs]_vars

\* the oldest Dataset of a full table has been read
C18_Witness ==
  /\ req[1].view = "detail"
  /\ req[1].pk = 1
  /\ req[1].status = 200
  /\ Cardinality(datasets) = 5
  /\ \A d \in datasets : d.uploaded_at >= req[1].body[1].summary.uploaded_at

EmptyInputErrors ==
  { <<"The uploaded CSV file is empty.">>, <<"CSV file is empty or malformed.">> }

NoValidDataError == <<"No valid data found after cleaning empty rows.">>

\* C19: an upload without a data row is answered 400 with an empty-input error,
\* one whose data rows are all blank in the five required fields 400 with the
\* no-valid-data error, and neither stores anything.
C19_EmptyAndBlankRejected ==
  (/\ Answered(1)
   /\ req[1].file.present
   /\ HasCsvExtension(req[1].file.name))
  => LET csv == req[1].file.csv
         Rejected(details) ==
           /\ req[1].status = 400
           /\ req[1].error = "CSV parsing failed"
           /\ req[1].detail \in details
           /\ req[1].dataset = 0
           /\ Snapshot = before
     IN /\ (Len(csv.rows) = 0 => Rejected(EmptyInputErrors))
        /\ ((/\ Len(csv.rows) >= 1
             /\ HasRequiredHeaders(csv)
             /\ BlankRows(csv) = DOMAIN csv.rows) => Rejected({NoValidDataError}))

\* the upload of two blank rows under the five headers has been answered
C19_Witness ==
  /\ Answered(1)
  /\ req[1].file = UploadBlankRows
  /\ req[1].detail = NoValidDataError
  /\ before.datasets # {}

\* a type cell that holds nothing but white space
IsBlankText(cell) == \A i \in DOMAIN cell : cell[i] \in {" ", "\t"}

\* C20: the type of every preview row and every key of type_distribution is a
\* trimmed string that is not empty, and is "Unknown" for a row whose type is
\* blank, white space only or missing.
C20_TypeTrimmedOrUnknown ==
  Summary =>
    LET a == analysis[1]
        cleaned == CleanedRows(csv_file)
    IN /\ \A k \in DOMAIN a.type_distribution : k # <<>> /\ Strip(k) = k
       /\ \A i \in DOMAIN a.preview_rows :
            LET t == a.preview_rows[i][type]
                cell == CellOf(csv_file, cleaned[i], type)
            IN /\ t.tag = "str"
               /\ t.s # <<>>
               /\ Strip(t.s) = t.s
               /\ ((cell \in NAStrings \/ IsBlankText(cell)) => t.s = Unknown)

(***************************************************************************)
(* Header spellings: every listed name (the required headers and the       *)
(* aliases of both tables) and some other headers, in three letter cases,  *)
(* with padding around them and with several spellings of the separator    *)
(* between their words.                                                    *)
(***************************************************************************)
\* Padding characters on each side of a header
MaxPad == 1

UpperOf ==
  [c \in Range(LowerChars) |->
     UpperChars[CHOOSE i \in DOMAIN LowerChars : LowerChars[i] = c]]

Upper(s) == [i \in DOMAIN s |-> IF s[i] \in DOMAIN UpperOf THEN UpperOf[s[i]] ELSE s[i]]

\* s with every character in olds replaced by the characters of new
RECURSIVE Respell(_, _, _)
Respell(s, olds, new) ==
  IF Len(s) = 0 THEN <<>>
  ELSE (IF Head(s) \in olds THEN new ELSE <<Head(s)>>) \o Respell(Tail(s), olds, new)

Pad(c, k) == [i \in 1..k |-> c]

\* the listed names with their canonical names
Listed == exact_mapping @@ column_mapping

OtherNames ==
  { H_Notes,
    <<"T","e","m","p",".">>,
    <<"F","l","o","w","-","R","a","t","e">>,
    <<"E","q","u","i","p","m","e","n","t","-","N","a","m","e">>,
    <<"E","q","u","i","p","m","e","n","t","_","N","a","m","e">>,
    <<"U","n","i","t"," ","I","D">>,
    <<"T","y","p","e","2">> }

Separators == {<<" ">>, <<" ", " ">>, <<"\t">>, <<"_">>, <<"-">>, <<>>}

HeaderSpellings ==
  { Pad(" ", l) \o c \o Pad("\t", r) :
      l \in 0..MaxPad, r \in 0..MaxPad,
      c \in UNION { {w, Upper(w), Lower(w)} :
                      w \in { Respell(n, {" ", "_"}, sep) :
                                n \in DOMAIN Listed \cup Range(HeadersCanonical) \cup OtherNames,
                                sep \in Separators } \cup DOMAIN Listed \cup OtherNames } }

InitNorm ==
  /\ \E h \in HeaderSpellings : csv_file = [headers |-> <<h>>, rows |-> <<>>]
  /\ analysis = <<>>
  /\ StoreInit

\* normalize_column_name applied to the header
Normalize ==
  /\ analysis = <<>>
  /\ analysis' = <<normalize_column_name(csv_file.headers[1])>>
  /\ UNCHANGED <<aside, csv_file, store>>

\* normalize_column_name applied to its own result
Renormalize ==
  /\ Len(analysis) = 1
  /\ analysis' = Append(analysis, normalize_column_name(analysis[1]))
  /\ UNCHANGED <<aside, csv_file, store>>

NextNorm ==
  \/ Normalize
  \/ Renormalize

SpecNorm == InitNorm /\ [][NextNorm]_vars

(***************************************************************************)
(* Properties of normalize_column_name.                                    *)
(***************************************************************************)
CanonicalNames == Range(required_columns)

NotSpace(c) == c \notin {" ", "\t"}

\* s without its whitespace and in lower case
Squash(s) == Lower(SelectSeq(s, NotSpace))

\* s and n differ only in letter case and in whitespace around s
SameButCaseAndPadding(s, n) ==
  \E lo \in 1..(Len(s) + 1) :
    /\ lo + Len(n) - 1 <= Len(s)
    /\ \A i \in 1..(lo - 1) : ~NotSpace(s[i])
    /\ \A i \in (lo + Len(n))..Len(s) : ~NotSpace(s[i])
    /\ \A i \in 1..Len(n) : LowerChar(s[lo + i - 1]) = LowerChar(n[i])

\* the same, where s may also have one space for an underscore of n
SameButCasePaddingAndUnderscore(s, n) ==
  \E lo \in 1..(Len(s) + 1) :
    /\ lo + Len(n) - 1 <= Len(s)
    /\ \A i \in 1..(lo - 1) : ~NotSpace(s[i])
    /\ \A i \in (lo + Len(n))..Len(s) : ~NotSpace(s[i])
    /\ \A i \in 1..Len(n) :
         \/ LowerChar(s[lo + i - 1]) = LowerChar(n[i])
         \/ (n[i] = "_" /\ s[lo + i - 1] = " ")

\* the letters, digits and underscores of s in lower case, a space between
\* two words counted as an underscore
Spelled(s) ==
  LET t == Lower(s)
      starts == {i \in DOMAIN t : NotSpace(t[i])} \cup {Len(t) + 1}
      first == CHOOSE i \in starts : \A j \in starts : i <= j
      IsKept(i) == \/ IsWordChar(t[i])
                   \/ /\ t[i] = " "
                      /\ i > first
                      /\ \E j \in (i + 1)..Len(t) : NotSpace(t[j])
      kept == {i \in DOMAIN t : IsKept(i)}
      Nth(k) == CHOOSE i \in kept : Cardinality({j \in kept : j < i}) = k - 1
  IN [k \in 1..Cardinality(kept) |-> IF t[Nth(k)] = " " THEN "_" ELSE t[Nth(k)]]

Header == csv_file.headers[1]

C29_Idempotent ==
  Len(analysis) = 2 => analysis[2] = analysis[1]

\* C22: when an upload has been answered with 201, the Dataset it created, if
\* it is in the table, has as many Equipment rows as its total_count.
C22_OneEquipmentPerCleanedRow ==
  \A p \in Procs :
    (Answered(p) /\ req[p].status = 201) =>
      \A d \in datasets :
        d.id = req[p].dataset =>
          Cardinality({e \in equipment : e.dataset = d.id}) = d.total_count

\* C23: an upload of a .csv file with the five required headers and with text
\* that is not a number in Flowrate, Pressure or Temperature is answered with
\* status 400.
C23_UnparseableRejectedWith400 ==
  \A p \in Procs :
    (/\ Answered(p)
     /\ req[p].file.present
     /\ HasCsvExtension(req[p].file.name)
     /\ HasRequiredHeaders(req[p].file.csv)
     /\ HasUnparseable(req[p].file.csv))
    => req[p].status = 400

(***************************************************************************)
(* equipment/utils.py: process_csv_content, on the header row and the data *)
(* rows that csv.DictReader reads from the text.                           *)
(***************************************************************************)
\* [col.lower().strip() for col in required_columns]
normalized_required ==
  << <<"e","q","u","i","p","m","e","n","t"," ","n","a","m","e">>,
     type, flowrate, pressure, temperature >>

\* [col.lower().strip() for col in actual_columns]
normalized_actual(fieldnames) ==
  {Strip(Lower(Strip(fieldnames[i]))) : i \in DOMAIN fieldnames}

missing_columns(fieldnames) ==
  SelectSeq(normalized_required, LAMBDA c : c \notin normalized_actual(fieldnames))

\* key.strip().lower().replace(' ', '_')
normalized_key(key) == Replace(Lower(Strip(key)), " ", "_")

\* float(str(value).strip()) raises ValueError; the cells of the model that
\* float accepts are unsigned integer literals
float_raises(value) == ~IsDigits(Strip(value))

\* the row is checked from its second reading on: enumerate starts at 1 and
\* row_num 1 is skipped, while DictReader has taken the header row already
processed_from == 2

\* processed_row of one row of the reader
processed_row(fieldnames, row) ==
  LET keys == {normalized_key(fieldnames[j]) : j \in DOMAIN fieldnames}
      Last(k) == CHOOSE j \in DOMAIN fieldnames :
                   /\ normalized_key(fieldnames[j]) = k
                   /\ \A i \in DOMAIN fieldnames :
                        normalized_key(fieldnames[i]) = k => i <= j
  IN [k \in keys |->
        LET value == row[Last(k)]
        IN IF Strip(value) = <<>> THEN NoneVal
           ELSE IF k \in Range(numeric_columns)
           THEN NumVal(<<100 * IntValue(Strip(value))>>)
           ELSE StrVal(Strip(value))]

\* the row raises CSVProcessingError("Invalid data type in row ...")
row_raises(fieldnames, row) ==
  \E j \in DOMAIN fieldnames :
    /\ Strip(row[j]) # <<>>
    /\ normalized_key(fieldnames[j]) \in Range(numeric_columns)
    /\ float_raises(row[j])

Raised(exception, message, row_num) ==
  [ok |-> FALSE, exception |-> exception, message |-> message, row_num |-> row_num,
   rows |-> <<>>]

process_csv_content(csv_content) ==
  IF csv_content = EmptyCsv
  THEN Raised("CSVValidationError", "CSV content is empty", 0)
  ELSE IF Len(missing_columns(csv_content.headers)) > 0
  THEN Raised("CSVProcessingError", "Invalid CSV format: Missing required columns", 0)
  ELSE LET fieldnames == csv_content.headers
           read == processed_from..Len(csv_content.rows)
           bad == {i \in read : row_raises(fieldnames, csv_content.rows[i])}
       IN IF bad # {}
          THEN Raised("CSVProcessingError", "Invalid data type in row",
                      CHOOSE i \in bad : \A j \in bad : i <= j)
          ELSE [ok |-> TRUE, exception |-> "", message |-> "", row_num |-> 0,
                rows |-> [k \in 1..Cardinality(read) |->
                            processed_row(fieldnames,
                                          csv_content.rows[processed_from + k - 1])]]

\* process_csv_content applied to the text
Process ==
  /\ analysis = <<>>
  /\ analysis' = <<process_csv_content(csv_file)>>
  /\ UNCHANGED <<aside, csv_file, store>>

NextProcess == Process

SpecProcess == InitCsv /\ [][NextProcess]_vars

(***************************************************************************)
(* Properties of process_csv_content.                                      *)
(***************************************************************************)
\* the header row has the five documented headers, whatever their letter case
\* and the whitespace around them
HasDocumentedHeaders(csv) ==
  \A h \in Range(HeadersCanonical) :
    \E j \in DOMAIN csv.headers : SameButCaseAndPadding(csv.headers[j], h)

\* the cell of data row i under the documented header h
DocumentedCell(csv, i, h) ==
  csv.rows[i][CHOOSE j \in DOMAIN csv.headers : SameButCaseAndPadding(csv.headers[j], h)]

\* a cell that is neither empty nor a number
NotANumber(cell) ==
  /\ \E i \in DOMAIN cell : NotSpace(cell[i])
  /\ \E i \in DOMAIN cell : cell[i] \notin DigitSet

HasNotANumber(csv) ==
  \E i \in DOMAIN csv.rows : \E h \in {H_Flowrate, H_Pressure, H_Temperature} :
    NotANumber(DocumentedCell(csv, i, h))

\* C24: when process_csv_content returns, the list has one dictionary for each
\* data row, in the order of the rows: its length is the number of data rows
\* and its first element has the name and the type of the first data row.
C24_OneDictPerDataRow ==
  (Len(analysis) = 1 /\ analysis[1].ok) =>
    /\ Len(analysis[1].rows) = Len(csv_file.rows)
    /\ Len(csv_file.rows) >= 1 =>
         /\ Len(analysis[1].rows) >= 1
         /\ analysis[1].rows[1][equipment_name].s
              = Strip(DocumentedCell(csv_file, 1, H_EquipmentName))
         /\ analysis[1].rows[1][type].s = Strip(DocumentedCell(csv_file, 1, H_Type))

\* C25: for a text with the five documented headers and, in some data row, a
\* value in Flowrate, Pressure or Temperature that is neither empty nor a
\* number, process_csv_content raises an 'Invalid data type' error.
C25_InvalidDataTypeRaised ==
  (/\ Len(analysis) = 1
   /\ HasDocumentedHeaders(csv_file)
   /\ HasNotANumber(csv_file))
  => /\ ~analysis[1].ok
     /\ analysis[1].message = "Invalid data type in row"

(***************************************************************************)
(* LoginView and LoginSerializer.  The User table is the one of the tests, *)
(* with a second user and a disabled one; request.data is a JSON object    *)
(* with any of the two fields, each a string.                              *)
(***************************************************************************)
\* the rows of the User table: username -> password, is_active
Users ==
     ("testuser" :> [password |-> "testpass123", is_active |-> TRUE])
  @@ ("otheruser" :> [password |-> "otherpass", is_active |-> TRUE])
  @@ ("disabled" :> [password |-> "testpass123", is_active |-> FALSE])

\* the keys that Token.generate_key may return
Keys == {"key1", "key2", "key3"}

Usernames == DOMAIN Users \cup {"wronguser", "", " "}

Passwords == {"testpass123", "otherpass", "wrongpass", "", " "}

LoginFields == {"username", "password"}

\* the JSON objects posted to /api/auth/login/
LoginData ==
  UNION { {f \in [fields -> Usernames \cup Passwords] :
             /\ "username" \in fields => f["username"] \in Usernames
             /\ "password" \in fields => f["password"] \in Passwords} :
          fields \in SUBSET LoginFields }

\* CharField(required=True): trim_whitespace, then allow_blank=False
field_errors(data) ==
  [f \in {g \in LoginFields : g \notin DOMAIN data \/ data[g] \in {"", " "}} |->
     IF f \notin DOMAIN data THEN "This field is required."
     ELSE "This field may not be blank."]

\* LoginSerializer.validate: the error it raises, "" when it returns attrs
validate(attrs) ==
  IF attrs["username"] = "" \/ attrs["password"] = ""
  THEN "Both username and password are required."
  ELSE IF attrs["username"] \notin DOMAIN Users
  THEN "Invalid credentials."
  ELSE IF Users[attrs["username"]].password # attrs["password"]
  THEN "Invalid credentials."
  ELSE IF ~Users[attrs["username"]].is_active
  THEN "User account is disabled."
  ELSE ""

\* serializer.errors after is_valid(); empty when the data is valid
serializer_errors(data) ==
  IF DOMAIN field_errors(data) # {} THEN field_errors(data)
  ELSE IF validate(data) # "" THEN ("non_field_errors" :> validate(data))
  ELSE <<>>

\* Response(serializer.errors, status=status.HTTP_401_UNAUTHORIZED)
invalid_status == 401

\* LoginView.post
LoginView(data) ==
  /\ IF DOMAIN serializer_errors(data) = {}
     THEN \* serializer.save(): Token.objects.get_or_create(user=user)
          LET user == data["username"]
          IN \E key \in Keys :
               /\ IF user \in DOMAIN tokens THEN key = tokens[user]
                  ELSE key \notin Range(tokens)
               /\ tokens' = (user :> key) @@ tokens
               /\ login' = [data |-> data, status |-> 200,
                            body |-> [token |-> key, username |-> user]]
     ELSE /\ login' = [data |-> data, status |-> invalid_status,
                       body |-> serializer_errors(data)]
          /\ UNCHANGED tokens
  /\ UNCHANGED <<csv_file, analysis, store, client>>

InitLogin == StoreOnly

NextLogin == \E data \in LoginData : LoginView(data)

SpecLogin == InitLogin /\ [][NextLogin]_vars

(***************************************************************************)
(* Properties of the login endpoint.                                       *)
(***************************************************************************)
LoginAnswered == login.status # 0

LacksField == DOMAIN login.data # {"username", "password"}

\* both fields are there and they are not the name and the password of a user
WrongCredentials ==
  /\ ~LacksField
  /\ \/ login.data["username"] \notin {"testuser", "otheruser", "disabled"}
     \/ /\ login.data["username"] \in {"testuser", "disabled"}
        /\ login.data["password"] # "testpass123"
     \/ /\ login.data["username"] = "otheruser"
        /\ login.data["password"] # "otherpass"

\* C26: a login without the username, without the password or without both is
\* answered with 400; a login with both and with wrong or unknown credentials
\* is answered with 401; neither answer has a token.
C26_MissingIs400WrongIs401 ==
  LoginAnswered =>
    /\ LacksField => login.status = 400 /\ "token" \notin DOMAIN login.body
    /\ WrongCredentials => login.status = 401 /\ "token" \notin DOMAIN login.body

\* C27: in the step that answers an upload with 201, the Dataset that the
\* upload created is in the Dataset table.
C27_CreatedDatasetStoredAtResponse ==
  [][\A p \in Procs :
       (req[p].pc = "equip" /\ req'[p].pc = "done" /\ req'[p].status = 201)
         => req'[p].dataset \in Ids(datasets')]_vars

(***************************************************************************)
(* The desktop client: MainWindow, its DataWorker threads and the signals  *)
(* that the threads emit, which the event loop of the main thread delivers *)
(* to the slots in the order of their emission.                            *)
(***************************************************************************)
\* Upload attempts started in the desktop client
MaxClientUploads == 2

\* the last value of range(0, 101, 10)
ProgressEnd == 100

ProgressStep == 10

ClientOnly == UNCHANGED <<csv_file, analysis, store, tokens, login>>

\* signal.emit(arg) in the thread w, which goes on as w2 (or ends)
Emit(c, w, signal, arg, w2) ==
  [c EXCEPT !.signals = Append(@, [signal |-> signal, arg |-> arg]),
            !.threads = (@ \ {w}) \cup w2]

\* the slot connected to the signal at the head of the queue runs
Delivered(signal) == client.signals # <<>> /\ Head(client.signals).signal = signal

\* handle_upload_csv with a file chosen: MainWindow.upload_csv_file.  The
\* clicked signal comes from an enabled button only.
upload_csv_file ==
  /\ client.upload_button
  /\ client.uploads < MaxClientUploads
  /\ client' =
       IF ~client.token
       THEN [client EXCEPT !.message = "Not authenticated. Please login first.",
                           !.uploads = @ + 1]
       ELSE DataWorker([client EXCEPT !.upload_progress = [visible |-> TRUE, value |-> 0],
                                      !.upload_button = FALSE,
                                      !.status_bar = "Uploading CSV file...",
                                      !.uploads = @ + 1],
                       "upload_csv")
  /\ ClientOnly

\* DataWorker.run, upload_csv: one turn of the progress loop
run_progress ==
  /\ \E w \in client.threads :
       /\ w.action = "upload_csv" /\ w.pc = "run"
       /\ client' = Emit(client, w, "upload_progress", w.i,
                         {IF w.i + ProgressStep > ProgressEnd
                          THEN [w EXCEPT !.pc = "call"]
                          ELSE [w EXCEPT !.i = @ + ProgressStep]})
  /\ ClientOnly

\* DataWorker.run, upload_csv: api_client.upload_csv returns or raises
run_upload_csv ==
  /\ \E w \in client.threads : \E raised \in BOOLEAN :
       /\ w.action = "upload_csv" /\ w.pc = "call"
       /\ client' = IF raised THEN Emit(client, w, "error", 0, {})
                    ELSE Emit(client, w, "upload_complete", 0, {})
  /\ ClientOnly

\* DataWorker.run, load_datasets: api_client.get_datasets returns a list of
\* arg datasets or raises
run_load_datasets ==
  /\ \E w \in client.threads : \E raised \in BOOLEAN : \E n \in {0, 1} :
       /\ w.action = "load_datasets"
       /\ client' = IF raised THEN Emit(client, w, "error", 0, {})
                    ELSE Emit(client, w, "datasets_loaded", n, {})
  /\ ClientOnly

\* DataWorker.run, load_dataset_detail
run_load_dataset_detail ==
  /\ \E w \in client.threads : \E raised \in BOOLEAN :
       /\ w.action = "load_dataset_detail"
       /\ client' = IF raised THEN Emit(client, w, "error", 0, {})
                    ELSE Emit(client, w, "dataset_detail_loaded", 0, {})
  /\ ClientOnly

on_upload_progress ==
  /\ Delivered("upload_progress")
  /\ client' = [client EXCEPT !.signals = Tail(@),
                              !.upload_progress.value = Head(client.signals).arg]
  /\ ClientOnly

on_upload_complete ==
  /\ Delivered("upload_complete")
  /\ client' = load_initial_data(
                 [client EXCEPT !.signals = Tail(@),
                                !.upload_progress.visible = FALSE,
                                !.upload_button = TRUE,
                                !.message = "CSV file uploaded successfully!"])
  /\ ClientOnly

\* on_datasets_loaded, which loads the detail of the first dataset of the list
on_datasets_loaded ==
  /\ Delivered("datasets_loaded")
  /\ client' =
       IF Head(client.signals).arg = 0
       THEN [client EXCEPT !.signals = Tail(@), !.status_bar = "Loaded datasets"]
       ELSE DataWorker([client EXCEPT !.signals = Tail(@),
                                      !.status_bar = "Loading dataset details..."],
                       "load_dataset_detail")
  /\ ClientOnly

on_dataset_detail_loaded ==
  /\ Delivered("dataset_detail_loaded")
  /\ client' = [client EXCEPT !.signals = Tail(@), !.status_bar = "Loaded dataset"]
  /\ ClientOnly

\* on_error: show_error and the message of the status bar
on_error ==
  /\ Delivered("error")
  /\ client' = [client EXCEPT !.signals = Tail(@),
                              !.message = "error_message",
                              !.status_bar = "Error occurred"]
  /\ ClientOnly

InitClient ==
  /\ csv_file = EmptyCsv /\ analysis = <<>>
  /\ datasets = {} /\ equipment = {} /\ blobs = <<>> /\ clock = 0 /\ next_id = 1
  /\ req = [p \in Procs |-> Idle]
  /\ before = [datasets |-> {}, equipment |-> {}, blobs |-> {}]
  /\ edits = 0
  /\ tokens = <<>> /\ login = NoLogin
  /\ \E token \in BOOLEAN : client = load_initial_data(MainWindow(token))

\* the steps of the worker threads
Run == run_progress \/ run_upload_csv \/ run_load_datasets \/ run_load_dataset_detail

\* the slots that the event loop calls
Slots ==
  \/ on_upload_progress
  \/ on_upload_complete
  \/ on_datasets_loaded
  \/ on_dataset_detail_loaded
  \/ on_error

NextClient ==
  \/ upload_csv_file
  \/ run_progress
  \/ run_upload_csv
  \/ run_load_datasets
  \/ run_load_dataset_detail
  \/ on_upload_progress
  \/ on_upload_complete
  \/ on_datasets_loaded
  \/ on_dataset_detail_loaded
  \/ on_error

\* a started thread runs to its end, and the event loop delivers every signal
SpecClient ==
  InitClient /\ [][NextClient]_vars /\ WF_vars(Run) /\ WF_vars(Slots)

(***************************************************************************)
(* Properties of the desktop client.                                       *)
(***************************************************************************)
\* an upload attempt has been started and has not ended: upload_csv_file
\* alone disables the button
UploadStarted == ~client.upload_button

UploadEnded == client.upload_button /\ ~client.upload_progress.visible

\* C30: every upload attempt that is started is followed by a state in which
\* the upload button is enabled and the progress bar is hidden.
C30_UploadEventuallyEnds == UploadStarted ~> UploadEnded

(***************************************************************************)
(* Overlapping uploads on a store in which the four latest rows and the    *)
(* rows of the new uploads may have one and the same uploaded_at, so that  *)
(* the prune of one upload can select the row of the other.                *)
(***************************************************************************)
InitTied ==
  /\ csv_file = EmptyCsv
  /\ analysis = <<>>
  /\ datasets =
       {DatasetRow(i, IF i = 1 THEN 0 ELSE 1, StoredFile, AnalysisOf[StoredFile]) :
          i \in 1..Stored}
  /\ clock = 1
  /\ equipment = UNION {EquipmentObjects(i, StoredFile.csv) : i \in 1..Stored}
  /\ blobs = [i \in 1..Stored |-> StoredFile.csv]
  /\ next_id = Stored + 1
  /\ req = [p \in Procs |-> Idle]
  /\ before = [datasets |-> {}, equipment |-> {}, blobs |-> {}]
  /\ edits = 0
  /\ AsideInit

SpecTied == InitTied /\ [][Next]_vars

\* C28: every Equipment row names a Dataset row that is in the table, whatever
\* the order of the equipment-creation step of one upload and of the prune steps
\* of another.
C28_NoOrphanedEquipment ==
  \A e \in equipment : e.dataset \in Ids(datasets)

\* the prune of one upload has deleted the row of the other, whose file is
\* left, before the other created its Equipment rows: the insert was refused
C28_Witness ==
  \E p, q \in Procs :
    /\ p # q
    /\ Answered(p)
    /\ req[p].detail = <<"IntegrityError">>
    /\ req[p].dataset \in req[q].selected
    /\ req[p].dataset \notin Ids(datasets)
    /\ \E e \in equipment : e.dataset \in Ids(datasets)

====
